---- MODULE Spec2Model ----
(***************************************************************************)
(* DataGuard: anomaly detection on store sales.                            *)
(*                                                                         *)
(* src/src/model.py  detect_anomalies(df, contamination): fits an          *)
(*                   IsolationForest(contamination, random_state=42) on    *)
(*                   the 'ventes' column and writes the columns            *)
(*                   'anomaly_score' and 'anomaly' into df.                *)
(* src/app.py        the dashboard script: filters the loaded data by      *)
(*                   store and date range, sorts it by date and runs       *)
(*                   detect_anomalies when more than 10 rows remain.       *)
(*                                                                         *)
(* Numbers.  Contamination is carried in hundredths (5 stands for 0.05).   *)
(* The isolation score of a sample is s = 2^(-E[h]/c(m)); the model keeps  *)
(* the summed path length (in 1/10000 of an edge) instead, which orders    *)
(* the samples exactly as score_samples = -s does: a smaller sum is a      *)
(* lower score_samples, i.e. a more anomalous sample.  The percentile      *)
(* cutoff and the comparison against it are carried out on these sums in   *)
(* exact arithmetic.                                                       *)
(***************************************************************************)
EXTENDS Integers, Sequences, FiniteSets, TLC

VARIABLES
    prng,             \* which stream the generator yields for a seed
    df,               \* the caller's DataFrame (loaded data)
    input0,           \* df as it was before the first call         (history)
    before,           \* df as it was when the last call started    (history)
    call,             \* arguments of the last call of detect_anomalies
    ret,              \* outcome of the last call: returned df or raised error
    fitted,           \* the IsolationForest fitted by the last call
    history,          \* outcome of every call so far, by contamination
    ncalls,           \* number of calls made so far
    app               \* the dashboard script's variables after a run

vars == <<prng, df, input0, before, call, ret, fitted, history, ncalls, app>>

---------------------------------------------------------------------------
(* Bounds of the model *)

MaxN == 3          \* longest dataset of the harness
MaxVal == 3        \* sales values are 1..MaxVal
MaxPrng == 3       \* generator streams 0..MaxPrng
MaxCalls == 2      \* calls of detect_anomalies in one run of the harness
NTrees == 2        \* trees of a forest (n_estimators)
Levels == 2        \* resolution of one uniform draw: k/Levels, k < Levels
MaxDays == 12      \* days of sales of the big store in the csv file

(* Program constants *)

random_state == 42         \* IsolationForest(random_state=42)
MaxSamplesCap == 256       \* max_samples="auto": min(256, n_samples)
RowThreshold == 10         \* app.py: if len(df_store) > 10

\* contamination values (hundredths) the callers pass: valid ones and,
\* for the harness, values outside (0, 0.5]
Contaminations == {0, 5, 25, 50, 60}
SliderValues == {1, 5, 20}

---------------------------------------------------------------------------
(* DataFrames: a set of column names and a sequence of rows.  A cell of a  *)
(* column the frame does not have holds NA.                                *)

NA == [anomaly_score |-> 0, anomaly |-> FALSE]

Row(i, d, m, v) ==
    [idx |-> i, date |-> d, magasin |-> m, ventes |-> v,
     anomaly_score |-> NA.anomaly_score, anomaly |-> NA.anomaly]

LoadedColumns == {"date", "magasin", "ventes"}

Frame(rows) == [columns |-> LoadedColumns, rows |-> rows]

EmptyFrame == [columns |-> {}, rows |-> <<>>]

IsEmpty(d) == Len(d.rows) = 0 \/ d.columns = {}

Ventes(d) == [i \in 1..Len(d.rows) |-> d.rows[i].ventes]

\* (variant: the values land in reverse row order)
SetAnomalyScoreReversed(d, values) ==
    [columns |-> d.columns \cup {"anomaly_score"},
     rows |-> [i \in 1..Len(d.rows) |->
                  [d.rows[i] EXCEPT
                     !.anomaly_score = values[Len(d.rows) + 1 - i]]]]

\* df[name] = values  (positional assignment of an array to a column)
SetAnomalyScore(d, values) ==
    [columns |-> d.columns \cup {"anomaly_score"},
     rows |-> [i \in 1..Len(d.rows) |->
                  [d.rows[i] EXCEPT !.anomaly_score = values[i]]]]

\* df['anomaly'] = df['anomaly_score'].apply(lambda x: True if x == -1 else False)
SetAnomaly(d) ==
    [columns |-> d.columns \cup {"anomaly"},
     rows |-> [i \in 1..Len(d.rows) |->
                  [d.rows[i] EXCEPT !.anomaly = (d.rows[i].anomaly_score = -1)]]]

---------------------------------------------------------------------------
(* The random generator.  RandomState(seed) is a deterministic stream; the *)
(* repository does not fix which one, so prng selects among streams of a   *)
(* full-period congruential generator.                                     *)

Lcg(x) == (5 * x + 3) % 16

RECURSIVE LcgIter(_, _)
LcgIter(x, k) == IF k = 0 THEN x ELSE LcgIter(Lcg(x), k - 1)

\* check_random_state(seed): the generator's state right after seeding
RandomState(seed) == (seed + prng) % 16

\* BaseBagging._fit: seeds = random_state.randint(MAX_INT, size=n_estimators);
\* tree t is seeded with the t-th draw of the forest's generator
TreeSeed(rs, t) == LcgIter(rs, t)

\* k-th uniform draw of the tree's own generator, as a numerator over Levels
Draw(seed, k) == (LcgIter((7 * seed + 1) % 16, k) * Levels) \div 16

---------------------------------------------------------------------------
(* Isolation trees (ExtraTreeRegressor, splitter="random", max_features=1) *)

SeqMin(S) == CHOOSE v \in {S[i] : i \in 1..Len(S)} :
                \A i \in 1..Len(S) : v <= S[i]
SeqMax(S) == CHOOSE v \in {S[i] : i \in 1..Len(S)} :
                \A i \in 1..Len(S) : v >= S[i]

RECURSIVE Filter(_, _, _)
\* the samples of S on the left (side = TRUE: v <= thr/Levels) or right
Filter(S, thr, side) ==
    IF S = <<>> THEN <<>>
    ELSE LET rest == Filter(Tail(S), thr, side)
         IN  IF (Head(S) * Levels <= thr) = side
             THEN <<Head(S)>> \o rest ELSE rest

\* max_depth = ceil(log2(max(max_samples, 2)))
RECURSIVE CeilLog2(_)
CeilLog2(n) == IF n <= 1 THEN 0 ELSE 1 + CeilLog2((n + 1) \div 2)

MaxSamples(n) == IF n < MaxSamplesCap THEN n ELSE MaxSamplesCap

MaxDepth(n) == CeilLog2(IF MaxSamples(n) > 2 THEN MaxSamples(n) ELSE 2)

\* The threshold a split draws: uniform in [lo, hi), as a numerator over
\* Levels; a draw that lands on hi is moved to lo.
Threshold(lo, hi, u) ==
    LET thr == lo * Levels + u * (hi - lo)
    IN  IF thr = hi * Levels THEN lo * Levels ELSE thr

RECURSIVE Build(_, _, _, _, _)
\* Depth-first construction, left child first.  A node is a leaf when it
\* holds fewer than 2 samples, sits at the depth limit, or its samples are
\* all equal.  Returns the node and the index of the next unused draw.
Build(S, depth, limit, seed, k) ==
    IF Len(S) < 2 \/ depth >= limit \/ SeqMin(S) = SeqMax(S)
    THEN [node |-> [leaf |-> TRUE, n |-> Len(S)], next |-> k]
    ELSE LET thr == Threshold(SeqMin(S), SeqMax(S), Draw(seed, k))
             lt  == Build(Filter(S, thr, TRUE), depth + 1, limit, seed, k + 1)
             rt  == Build(Filter(S, thr, FALSE), depth + 1, limit, seed, lt.next)
         IN  [node |-> [leaf |-> FALSE, n |-> Len(S), thr |-> thr,
                        left |-> lt.node, right |-> rt.node],
              next |-> rt.next]

\* BaseBagging._fit: the forest's trees, each fitted on the max_samples
\* samples drawn without replacement (all of them while n <= 256)
Forest(X, seed) ==
    [t \in 1..NTrees |->
        Build(X, 0, MaxDepth(Len(X)), TreeSeed(RandomState(seed), t), 0).node]

\* _average_path_length(n) in 1/10000:
\* 0 for n <= 1, 1 for n = 2, else 2(ln(n-1) + 0.5772156649) - 2(n-1)/n
AveragePathLength(n) ==
    IF n <= 1 THEN 0
    ELSE << 0, 10000, 12074, 18517, 23270, 27066, 30237, 32963, 35355, 37489,
            39414, 41169, 42781, 44272, 45659, 46955, 48173, 49320, 50404,
            51433, 52411, 53344, 54235, 55088, 55905, 56691, 57447, 58175,
            58878, 59557, 60213, 60849 >>[n]

RECURSIVE PathLength(_, _)
\* edges from the root to the leaf v falls in, plus c(leaf size)
PathLength(node, v) ==
    IF node.leaf THEN AveragePathLength(node.n)
    ELSE 10000 + PathLength(IF v * Levels <= node.thr THEN node.left
                            ELSE node.right, v)

RECURSIVE SumDepths(_, _, _)
SumDepths(forest, v, t) ==
    IF t = 0 THEN 0 ELSE PathLength(forest[t], v) + SumDepths(forest, v, t - 1)

\* score_samples(X), as the summed path length of each sample
ScoreSamples(forest, X) ==
    [i \in 1..Len(X) |-> SumDepths(forest, X[i], NTrees)]

\* (variant: the virtual index taken as contamination * n)
PercentileOfN(a, c) ==
    LET n  == Len(a)
        s  == SortSeq(a, LAMBDA x, y : x < y)
        p  == c * n
        j  == IF p \div 100 < n THEN p \div 100 ELSE n - 1
        lo == s[j + 1]
        hi == s[IF j + 2 <= n THEN j + 2 ELSE n]
    IN  100 * lo + (p % 100) * (hi - lo)

\* np.percentile(a, 100 * contamination), times 100: linear interpolation
\* at the virtual index contamination * (n - 1) of the sorted array
Percentile(a, c) ==
    LET n  == Len(a)
        s  == SortSeq(a, LAMBDA x, y : x < y)
        p  == c * (n - 1)
        j  == p \div 100
        lo == s[j + 1]
        hi == s[IF j + 2 <= n THEN j + 2 ELSE n]
    IN  100 * lo + (p % 100) * (hi - lo)

\* (variant: samples on the cutoff are outliers too)
PredictOnCutoff(score, offset) == IF 100 * score <= offset THEN -1 ELSE 1

\* predict: -1 where decision_function(X) = score_samples(X) - offset_ < 0
Predict(score, offset) == IF 100 * score < offset THEN -1 ELSE 1

\* (variant: no upper limit)
AnyPositiveContamination(c) == 0 < c

\* _validate_params: contamination must lie in (0, 0.5]
ValidContamination(c) == 0 < c /\ c <= 50

\* (variant: the generator is not reseeded, each call goes on where the
\* previous one stopped)
RandomStateShared(k) == random_state + k

\* the random_state the model is constructed with by the call that follows
\* k earlier ones: IsolationForest(..., random_state=42)
RandomStateFor(k) == random_state

NoModel == [scores |-> <<>>, offset |-> 0]

\* IsolationForest.fit(X): the scores of the training samples and offset_.
\* (A value bound through a singleton set is evaluated once.)
Fit(X, c, seed) ==
    CHOOSE m \in { [scores |-> s, offset |-> Percentile(s, c)] :
                   s \in { ScoreSamples(f, X) : f \in {Forest(X, seed)} } } : TRUE

\* labels of fit_predict(X)
FitPredict(m) == [i \in 1..Len(m.scores) |-> Predict(m.scores[i], m.offset)]

---------------------------------------------------------------------------
(* detect_anomalies(df, contamination), called by a harness on its df *)

NoCall == [c |-> 0, made |-> FALSE]
NoRet == [kind |-> "none", error |-> "", df |-> EmptyFrame]

Outcome(c, r) ==
    [c |-> c, kind |-> r.kind, error |-> r.error,
     scores |-> [i \in 1..Len(r.df.rows) |-> r.df.rows[i].anomaly_score],
     flags |-> [i \in 1..Len(r.df.rows) |-> r.df.rows[i].anomaly]]

Returned(out, m) ==
    [df |-> out, ret |-> [kind |-> "returned", error |-> "", df |-> out],
     fitted |-> m]

Raised(d, error) ==
    [df |-> d, ret |-> [kind |-> "raised", error |-> error, df |-> EmptyFrame],
     fitted |-> NoModel]

\* the effect of one call on a frame d: the frame afterwards, what the call
\* returned or raised, and the model it fitted
DetectAnomalies(d, c) ==
    IF IsEmpty(d)
    THEN Returned(d, NoModel)
    ELSE IF ~ValidContamination(c)
    THEN Raised(d, "InvalidParameterError")
    ELSE CHOOSE r \in { Returned(SetAnomaly(SetAnomalyScore(d, FitPredict(m))), m) :
                        m \in {Fit(Ventes(d), c, RandomStateFor(ncalls))} } : TRUE

Detect(c) ==
    /\ ncalls < MaxCalls
    /\ \E r \in {DetectAnomalies(df, c)} :
           /\ df' = r.df
           /\ ret' = r.ret
           /\ fitted' = r.fitted
           /\ history' = history \cup {Outcome(c, r.ret)}
    /\ before' = df
    /\ call' = [c |-> c, made |-> TRUE]
    /\ ncalls' = ncalls + 1
    /\ UNCHANGED <<prng, input0, app>>

---------------------------------------------------------------------------
(* Datasets of the harness *)

RECURSIVE SeqsUpTo(_)
SeqsUpTo(n) ==
    IF n = 0 THEN {<<>>}
    ELSE LET shorter == SeqsUpTo(n - 1)
         IN  shorter \cup {Append(s, v) : s \in {x \in shorter : Len(x) = n - 1},
                                          v \in 1..MaxVal}

\* nineteen values 100 and one value 1000
ScenarioA == [i \in 1..20 |-> IF i = 7 THEN 1000 ELSE 100]

Datasets == SeqsUpTo(MaxN) \cup {ScenarioA}

FrameOf(X) == Frame([i \in 1..Len(X) |-> Row(i, i, "A", X[i])])

NoApp == [ran |-> FALSE]

Init ==
    /\ prng \in 0..MaxPrng
    /\ \E X \in Datasets : df = FrameOf(X)
    /\ input0 = df
    /\ before = df
    /\ call = NoCall
    /\ ret = NoRet
    /\ fitted = NoModel
    /\ history = {}
    /\ ncalls = 0
    /\ app = NoApp

Next == \E c \in Contaminations : Detect(c)

Spec == Init /\ [][Next]_vars

---------------------------------------------------------------------------
(* The dashboard script (app.py).  One execution of the script: the        *)
(* sidebar's widgets give the selection, the rest is computed from it.     *)

\* ventes.csv as load_data returns it: store "A" has one row per day, latest
\* day first, all sales 2 but for those of the day `spike`; store "B" has
\* two rows.  load_data returns an empty frame when the file cannot be read.
CsvRows(spike) ==
    [i \in 1..(MaxDays + 2) |->
        IF i <= MaxDays
        THEN LET d == MaxDays + 1 - i
             IN  Row(i - 1, d, "A", IF d = spike THEN 3 ELSE 2)
        ELSE Row(i - 1, i - MaxDays, "B", i - MaxDays)]

CsvFiles == {Frame(CsvRows(spike)) : spike \in 0..MaxDays} \cup {EmptyFrame}

Dates(d) == {d.rows[i].date : i \in 1..Len(d.rows)}
MinDate(d) == CHOOSE x \in Dates(d) : \A y \in Dates(d) : x <= y
MaxDate(d) == CHOOSE x \in Dates(d) : \A y \in Dates(d) : x >= y

\* sorted(df['magasin'].unique())
Stores(d) == {d.rows[i].magasin : i \in 1..Len(d.rows)}

\* st.date_input: one date while the user is still picking, else (start, end),
\* every date within [min_date, max_date]
DateRanges(d) ==
    LET days == IF d.rows = <<>> THEN {} ELSE MinDate(d)..MaxDate(d)
    IN  {<<a>> : a \in days} \cup {r \in days \X days : r[1] <= r[2]}

RECURSIVE SelectRows(_, _, _)
\* the rows of one store, kept within the date range when it has two ends
SelectRows(rows, store, range) ==
    IF rows = <<>> THEN <<>>
    ELSE LET r    == Head(rows)
             rest == SelectRows(Tail(rows), store, range)
             keep == /\ r.magasin = store
                     /\ Len(range) = 2 => (range[1] <= r.date /\ r.date <= range[2])
         IN  IF keep THEN <<r>> \o rest ELSE rest

\* df_store.sort_values('date')
SortByDate(rows) == SortSeq(rows, LAMBDA a, b : a.date < b.date)

\* (variant: off by one)
EnoughRowsFrom10(n) == n >= RowThreshold

\* if len(df_store) > 10
EnoughRows(n) == n > RowThreshold

\* else branch: df_store['anomaly'] = False; df_store['anomaly_score'] = 1
MarkAllNormal(d) ==
    [columns |-> d.columns \cup {"anomaly", "anomaly_score"},
     rows |-> [i \in 1..Len(d.rows) |->
                  [d.rows[i] EXCEPT !.anomaly = FALSE, !.anomaly_score = 1]]]

\* df_store['anomaly'].sum()
AnomaliesCount(d) == Cardinality({i \in 1..Len(d.rows) : d.rows[i].anomaly})

\* lines 124-145 for one selection
RunModel(store, range, c) ==
    LET filtered == [columns |-> df.columns,
                     rows |-> SortByDate(SelectRows(df.rows, store, range))]
    IN  IF EnoughRows(Len(filtered.rows))
        THEN {[filtered |-> filtered, invoked |-> TRUE, warned |-> FALSE,
               df_store |-> r.ret.df, fitted |-> r.fitted] :
                 r \in {DetectAnomalies(filtered, c)}}
        ELSE {[filtered |-> filtered, invoked |-> FALSE, warned |-> TRUE,
               df_store |-> MarkAllNormal(filtered), fitted |-> NoModel]}

Rerun(store, range, c) ==
    /\ ~app.ran
    /\ ~IsEmpty(df)
    /\ \E run \in RunModel(store, range, c) :
          /\ app' = [ran |-> TRUE, stopped |-> FALSE,
                     selected_store |-> store, date_range |-> range,
                     contamination |-> c, filtered |-> run.filtered,
                     invoked |-> run.invoked, warned |-> run.warned,
                     df_store |-> run.df_store,
                     anomalies_count |-> AnomaliesCount(run.df_store)]
          /\ fitted' = run.fitted
          /\ ncalls' = IF run.invoked THEN ncalls + 1 ELSE ncalls
    /\ UNCHANGED <<prng, df, input0, before, call, ret, history>>

\* if df.empty: st.error(...); st.stop()
AppStop ==
    /\ ~app.ran
    /\ IsEmpty(df)
    /\ app' = [ran |-> TRUE, stopped |-> TRUE]
    /\ UNCHANGED <<prng, df, input0, before, call, ret, fitted, history, ncalls>>

AppInit ==
    /\ prng \in 0..MaxPrng
    /\ df \in CsvFiles
    /\ input0 = df
    /\ before = df
    /\ call = NoCall
    /\ ret = NoRet
    /\ fitted = NoModel
    /\ history = {}
    /\ ncalls = 0
    /\ app = NoApp

AppNext ==
    \/ AppStop
    \/ \E store \in Stores(df), range \in DateRanges(df), c \in SliderValues :
          Rerun(store, range, c)

AppSpec == AppInit /\ [][AppNext]_vars

---------------------------------------------------------------------------
(* Properties.  The last call is described by call, before (its input),    *)
(* ret (its outcome) and fitted (the forest's scores and cutoff).          *)

N == Len(before.rows)
ReturnedCall == call.made /\ ret.kind = "returned"
Flagged == {i \in 1..Len(ret.df.rows) : ret.df.rows[i].anomaly}

\* i scores higher than j: its summed path length is shorter
ScoresHigher(i, j) == fitted.scores[i] < fitted.scores[j]

\* Python's round(c * n): to the nearest integer, halves to the even one
RoundCN(c, n) ==
    LET q == (c * n) \div 100
        r == (c * n) % 100
    IN  IF r > 50 \/ (r = 50 /\ q % 2 = 1) THEN q + 1 ELSE q

\* ceil(c * (n - 1))
CeilCN1(c, n) == (c * (n - 1) + 99) \div 100

\* observations ranked before i: higher score, or equal score and earlier
RankedBefore(i) ==
    {j \in 1..N : ScoresHigher(j, i) \/
                  (fitted.scores[j] = fitted.scores[i] /\ j < i)}

HigherThan(i) == Cardinality({j \in 1..N : ScoresHigher(j, i)})

C2_AlignedWithInput ==
    ReturnedCall =>
        /\ Len(ret.df.rows) = N
        /\ \A i \in 1..N :
              /\ ret.df.rows[i].idx = before.rows[i].idx
              /\ ret.df.rows[i].date = before.rows[i].date
              /\ ret.df.rows[i].ventes = before.rows[i].ventes
              /\ ret.df.rows[i].anomaly_score =
                    (IF 100 * fitted.scores[i] < fitted.offset THEN -1 ELSE 1)
              /\ ret.df.rows[i].anomaly = (ret.df.rows[i].anomaly_score = -1)
        /\ \A i, j \in 1..N :
              before.rows[i].ventes = before.rows[j].ventes =>
                 /\ ret.df.rows[i].anomaly_score = ret.df.rows[j].anomaly_score
                 /\ ret.df.rows[i].anomaly = ret.df.rows[j].anomaly

\* a call on three observations that flags the first and not the last
C2_Witness ==
    /\ ReturnedCall /\ N = 3
    /\ ret.df.rows[1].anomaly /\ ~ret.df.rows[3].anomaly
    /\ ret.df.rows[1].ventes # ret.df.rows[3].ventes

MaxReturnedScore ==
    CHOOSE x \in {ret.df.rows[i].anomaly_score : i \in 1..Len(ret.df.rows)} :
        \A i \in 1..Len(ret.df.rows) : x >= ret.df.rows[i].anomaly_score

\* C4 as stated: on nineteen values 100 and one value 1000 with contamination
\* 0.05, whatever the generator draws, exactly one observation is flagged,
\* it is the value 1000, and its returned score is the maximum of the 20.
C4_ScenarioA ==
    (call.made /\ call.c = 5 /\ Ventes(before) = ScenarioA) =>
        /\ ret.kind = "returned"
        /\ Cardinality(Flagged) = 1
        /\ \A i \in Flagged :
              /\ ret.df.rows[i].ventes = 1000
              /\ ret.df.rows[i].anomaly_score = MaxReturnedScore

\* C5 as stated: every score a call returns lies in [0, 1], and is 0.5 when
\* the dataset has at most 2 observations.
C5_ScoreInUnitInterval ==
    ReturnedCall =>
        \A i \in 1..Len(ret.df.rows) :
            /\ 0 <= ret.df.rows[i].anomaly_score
            /\ ret.df.rows[i].anomaly_score <= 1
            /\ N <= 2 => 2 * ret.df.rows[i].anomaly_score = 1

\* what a rejected call leaves behind: the error, no result, no fitted
\* forest, and the caller's frame as it was when the call started
Rejected(error) ==
    /\ ret.kind = "raised" /\ ret.error = error
    /\ ret.df = EmptyFrame
    /\ fitted = NoModel
    /\ df = before

\* C6 as stated: a call with contamination outside (0, 0.5] fails with
\* InvalidParameterError, produces no score or flag and leaves the dataset
\* as it was.
C6_InvalidContaminationRejected ==
    (call.made /\ ~(0 < call.c /\ call.c <= 50)) =>
        Rejected("InvalidParameterError")

\* C6 (amended): a call with contamination outside (0, 0.5] on a dataset
\* that is not empty fails with InvalidParameterError, produces no score or
\* flag and leaves the dataset as it was; on an empty dataset the call
\* returns the dataset and raises nothing.
C6_RejectedUnlessEmpty ==
    (call.made /\ ~(0 < call.c /\ call.c <= 50)) =>
        IF IsEmpty(before)
        THEN ret.kind = "returned" /\ ret.df = before /\ df = before
        ELSE Rejected("InvalidParameterError")

\* contamination 0.6 rejected on a dataset that an earlier call had given
\* its score and flag columns
C6_Witness ==
    /\ call.made /\ call.c = 60 /\ N >= 2
    /\ ret.kind = "raised"
    /\ "anomaly" \in df.columns

C8_EmptyResultHasFields ==
    (call.made /\ IsEmpty(before)) =>
        /\ ret.kind = "returned"
        /\ Len(ret.df.rows) = 0
        /\ {"anomaly_score", "anomaly"} \subseteq ret.df.columns

\* C9 as stated: after any number of calls the caller's dataset has the
\* observations, values and fields it had before the first call.
C9_InputNotMutated ==
    /\ df.columns = input0.columns
    /\ Len(df.rows) = Len(input0.rows)
    /\ \A i \in 1..Len(df.rows) :
          /\ df.rows[i].idx = input0.rows[i].idx
          /\ df.rows[i].date = input0.rows[i].date
          /\ df.rows[i].magasin = input0.rows[i].magasin
          /\ df.rows[i].ventes = input0.rows[i].ventes

\* C10: after the script's 'Run Model' step the filtered data has the
\* columns 'anomaly' and 'anomaly_score' with one entry per filtered row, in
\* date order; detect_anomalies was invoked exactly when more than 10 rows
\* were left, and with 10 rows or fewer no row is flagged and the reported
\* count is 0.
C10_RunModel ==
    (app.ran /\ ~app.stopped) =>
        /\ {"anomaly_score", "anomaly"} \subseteq app.df_store.columns
        /\ Len(app.df_store.rows) = Len(app.filtered.rows)
        /\ \A i \in 1..Len(app.filtered.rows) :
              /\ app.df_store.rows[i].idx = app.filtered.rows[i].idx
              /\ app.df_store.rows[i].magasin = app.selected_store
              /\ app.df_store.rows[i].anomaly_score \in {-1, 1}
              /\ app.df_store.rows[i].anomaly \in BOOLEAN
              /\ i > 1 => app.df_store.rows[i - 1].date <= app.df_store.rows[i].date
        /\ app.invoked <=> Len(app.filtered.rows) > 10
        /\ app.invoked <=> fitted # NoModel
        /\ app.warned <=> ~app.invoked
        /\ Len(app.filtered.rows) <= 10 =>
              /\ \A i \in 1..Len(app.df_store.rows) : ~app.df_store.rows[i].anomaly
              /\ app.anomalies_count = 0

\* a run on exactly 10 rows, which is not scored, and a run on 11 rows that
\* flags one
C10_Witness ==
    /\ app.ran /\ ~app.stopped
    /\ Len(app.filtered.rows) = 10 /\ ~app.invoked /\ app.anomalies_count = 0

C10_WitnessScored ==
    /\ app.ran /\ ~app.stopped
    /\ Len(app.filtered.rows) = 11 /\ app.invoked /\ app.anomalies_count = 1

====
